---- MODULE Spec2Model ----
(***************************************************************************)
(* State-machine model of the ILM analyzer's ingestion component           *)
(* (src/src/components/FileUpload.tsx: processZipFile, handleDrop,         *)
(* handleFileChange, loadDemoData) and of the master highlighting of       *)
(* src/src/views/NodesView.tsx (isMasterNode).                             *)
(*                                                                         *)
(* JavaScript runs one task at a time: every action below is the code that *)
(* runs between two suspension points (an await, a timer, a UI event).     *)
(***************************************************************************)
EXTENDS Integers, Sequences, FiniteSets, TLC

\* ------------------------------------------------------------------ bounds
\* Largest number of entries of an uploaded archive.
MaxEntries == 2
\* Largest number of ingestion attempts of one run of the concurrent usage.
MaxAttempts == 2
\* Largest number of nodes of a NodesResponse.
MaxNodes == 2

VARIABLES
    isLoading,   \* React state isLoading
    error,       \* React state error (a message; NoError is null)
    storage,     \* localStorage: key -> stored text
    started,     \* number of calls of processZipFile / loadDemoData so far
    pc,          \* per attempt (in the order they start): where its async function is suspended
    file,        \* per attempt: the File handed to processZipFile
    idx,         \* per attempt: index of the entry the primary loop awaits
    json,        \* per attempt: errorsJson .. pipelinesJson of processZipFile
    auxpc,       \* per attempt: state of the setTimeout callback
    auxidx,      \* per attempt: index of the entry the deferred loop awaits
    resp,        \* per attempt: the nine fetch() promises of loadDemoData
    body,        \* per attempt: the nine res.json() promises of loadDemoData
    log,         \* per attempt: its setError / setItem / onDataLoaded calls, in order
    nodesData,   \* NodesView prop: node id -> node name
    masterNode,  \* NodesView prop: the master record, or none
    rendered,    \* whether NodesView has rendered its cards
    marked       \* the node ids whose card carries the master highlighting

uploadVars == <<isLoading, error, storage, started, pc, file, idx, json,
                auxpc, auxidx, resp, body, log>>
viewVars == <<nodesData, masterNode, rendered, marked>>
vars == <<isLoading, error, storage, started, pc, file, idx, json,
          auxpc, auxidx, resp, body, log, nodesData, masterNode, rendered, marked>>

Attempts == 1..MaxAttempts

\* ------------------------------------------------------- JavaScript values
Val(t, a) == [t |-> t, a |-> a]
JsNull == Val("null", "")
JsUndefined == Val("undefined", "")
\* The literal [] of `shardsJson || []`.
EmptyArray == Val("array", "")
\* An object {"a": <a>}.
Obj(a) == Val("object", a)
\* The exception JSON.parse and Response.json throw on text that is not JSON.
SyntaxError == Val("SyntaxError", "")
\* A promise that has not settled.
Pending == Val("pending", "")

\* JavaScript truthiness, as `!x`, `x || y` and `if (x)` use it.
Truthy(v) == v.t \in {"object", "array"}

\* ------------------------------------------------------------- JSON texts
\* A text is its sequence of tokens.
NullText == <<"null">>
ObjText(a) == <<"{", "\"a\"", ":", a, "}">>
BadText == <<"<", "html", ">">>

JSONparse(text) ==
    IF text = <<"null">> THEN JsNull
    ELSE IF text = <<"[", "]">> THEN EmptyArray
    ELSE IF /\ Len(text) = 5
            /\ text[1] = "{" /\ text[2] = "\"a\"" /\ text[3] = ":" /\ text[5] = "}"
         THEN Obj(text[4])
    ELSE SyntaxError

JSONstringify(v) ==
    CASE v.t = "null" -> <<"null">>
      [] v.t = "array" -> <<"[", "]">>
      [] v.t = "object" -> <<"{", "\"a\"", ":", v.a, "}">>

\* ------------------------------------------------------------------ paths
\* A path is the sequence of the pieces it is written with; each recognized
\* filename is one piece, so `includes` is membership among the pieces.
toLowerCase(path) ==
    [i \in 1..Len(path) |->
        CASE path[i] = "Data/" -> "data/"
          [] path[i] = "ILM_Policies.JSON" -> "ilm_policies.json"
          [] OTHER -> path[i]]

includes(path, needle) == \E i \in 1..Len(path) : path[i] = needle

Paths ==
    { <<"ilm_explain_only_errors.json">>,
      <<"Data/", "ILM_Policies.JSON">>,
      <<"version.json">>,
      <<"version.json", "/", "shards.json">>,
      <<"shards.json">>,
      <<"allocation_explain.json">>,
      <<"cluster_", "settings.json">>,
      <<"nodes_stats.json">>,
      <<"pipelines.json">>,
      <<"index_templates.json">>,
      <<"alias.json">>,
      <<"aliases.json">> }

DirPaths == { <<"Data/">> }

\* What the k-th entry of an archive may hold: `ok` is whether
\* zipEntry.async('string') resolves, `text` what it resolves to. The object of
\* the k-th entry is {"a": "k"}, so that the objects of two entries differ.
Contents(k) ==
    { [ok |-> FALSE, text |-> <<>>],
      [ok |-> TRUE, text |-> BadText],
      [ok |-> TRUE, text |-> NullText],
      [ok |-> TRUE, text |-> ObjText(ToString(k))] }

Entry(path, dir, c) == [path |-> path, dir |-> dir, ok |-> c.ok, text |-> c.text]

Entries(k) ==
    {Entry(p, FALSE, c) : p \in Paths, c \in Contents(k)}
        \cup {Entry(p, TRUE, [ok |-> TRUE, text |-> <<>>]) : p \in DirPaths}

\* contents.files is an object keyed by path: the paths of an archive differ.
\* Numbered(s) gives the object of the k-th entry its number.
Numbered(s) ==
    [k \in 1..Len(s) |->
        IF s[k].text = ObjText("0") THEN [s[k] EXCEPT !.text = ObjText(ToString(k))]
        ELSE s[k]]

Archives(n) ==
    {Numbered(s) :
        s \in {t \in UNION {[1..k -> Entries(0)] : k \in 0..n} :
                \A i, j \in 1..Len(t) : i # j => t[i].path # t[j].path}}

\* A File: `valid` is whether zip.loadAsync resolves, `entries` its contents.files.
ZipFile(entries) == [valid |-> TRUE, entries |-> entries]
NotAZip == [valid |-> FALSE, entries |-> <<>>]
Files == {ZipFile(s) : s \in Archives(MaxEntries)} \cup {NotAZip}
FileTypes == {"application/zip", "text/plain"}

\* The files of the concurrent usage: few, so that several attempts can overlap.
ConcFiles ==
    { NotAZip,
      ZipFile(<<>>),
      ZipFile(<<Entry(<<"cluster_", "settings.json">>, FALSE, [ok |-> TRUE, text |-> ObjText("1")]),
                Entry(<<"aliases.json">>, FALSE, [ok |-> TRUE, text |-> ObjText("2")])>>) }

\* --------------------------------------------------------------- messages
NoError == <<>>
startsWith(msg, prefix) == Len(msg) > 0 /\ msg[1] = prefix

RECURSIVE join(_, _)
join(list, sep) ==
    IF Len(list) = 0 THEN <<>>
    ELSE IF Len(list) = 1 THEN <<list[1]>>
    ELSE <<list[1], sep>> \o join(Tail(list), sep)

AdvisoryMessage(missing) ==
    <<"Note:", " Some ILM files are missing (">> \o join(missing, ", ")
        \o <<"), but you can still view available data.">>

\* err.message of the Error zip.loadAsync rejects with (JSZip's own texts).
ZipErrorMessages ==
    { <<"Can't find end of central directory : is this a zip file ?">>,
      <<"Corrupted zip: can't find end of central directory">> }
PleaseUploadMessage == <<"Please upload a ZIP file">>
DemoFailedMessage == <<"Failed to load demo data">>

\* ----------------------------------------------------------------- effects
\* The calls an attempt makes on the world outside it, recorded in order.
Ev(op, key, arg) == [op |-> op, key |-> key, arg |-> arg]
SetError(msg) == Ev("setError", "", msg)
SetItem(key, v) == Ev("setItem", key, JSONstringify(v))
OnDataLoaded(args) == Ev("onDataLoaded", "", args)

StorageKeys == {"index_templates", "aliases", "settings"}
NoItem == <<>>

RECURSIVE storageAfter(_, _)
storageAfter(st, evs) ==
    IF Len(evs) = 0 THEN st
    ELSE storageAfter(
            IF evs[1].op = "setItem" THEN [st EXCEPT ![evs[1].key] = evs[1].arg] ELSE st,
            Tail(evs))

RECURSIVE errorAfter(_, _)
errorAfter(err, evs) ==
    IF Len(evs) = 0 THEN err
    ELSE errorAfter(IF evs[1].op = "setError" THEN evs[1].arg ELSE err, Tail(evs))

\* ------------------------------------------------- processZipFile: pure parts
Fields == {"errors", "policies", "version", "shards", "allocation", "settings",
           "nodesStats", "pipelines"}
NoJson == [f \in Fields |-> JsNull]

\* Mutant of matchRule: the shards rule is tested before the version rule.
matchRuleShardsFirst(normalizedPath) ==
    IF includes(normalizedPath, "ilm_explain_only_errors.json") THEN "errors"
    ELSE IF includes(normalizedPath, "ilm_policies.json") THEN "policies"
    ELSE IF includes(normalizedPath, "shards.json") THEN "shards"
    ELSE IF includes(normalizedPath, "version.json") THEN "version"
    ELSE IF includes(normalizedPath, "allocation_explain.json") THEN "allocation"
    ELSE IF includes(normalizedPath, "settings.json") THEN "settings"
    ELSE IF includes(normalizedPath, "nodes_stats.json") THEN "nodesStats"
    ELSE IF includes(normalizedPath, "pipelines.json") THEN "pipelines"
    ELSE "none"

\* The if / else-if chain over normalizedPath: the field the entry is stored in.
matchRule(normalizedPath) ==
    IF includes(normalizedPath, "ilm_explain_only_errors.json") THEN "errors"
    ELSE IF includes(normalizedPath, "ilm_policies.json") THEN "policies"
    ELSE IF includes(normalizedPath, "version.json") THEN "version"
    ELSE IF includes(normalizedPath, "shards.json") THEN "shards"
    ELSE IF includes(normalizedPath, "allocation_explain.json") THEN "allocation"
    ELSE IF includes(normalizedPath, "settings.json") THEN "settings"
    ELSE IF includes(normalizedPath, "nodes_stats.json") THEN "nodesStats"
    ELSE IF includes(normalizedPath, "pipelines.json") THEN "pipelines"
    ELSE "none"

\* One iteration of the primary loop on a non-directory entry: the locals after it.
processEntry(j, e) ==
    LET normalizedPath == toLowerCase(e.path)
        parsed == IF e.ok THEN JSONparse(e.text) ELSE SyntaxError
        rule == matchRule(normalizedPath)
    IN  IF ~e.ok \/ parsed = SyntaxError THEN j
        ELSE IF rule = "none" THEN j
        ELSE [j EXCEPT ![rule] = parsed]

\* The primary loop as a whole, lines 42-80: the locals after entries i .. Len.
RECURSIVE primaryPass(_, _, _)
primaryPass(entries, i, j) ==
    IF i > Len(entries) THEN j
    ELSE primaryPass(entries, i + 1,
                     IF entries[i].dir THEN j ELSE processEntry(j, entries[i]))

\* The index of the first non-directory entry after i (Len + 1 when none is left).
nextFile(entries, i) ==
    LET S == {k \in (i + 1)..Len(entries) : ~entries[k].dir}
    IN  IF S = {} THEN Len(entries) + 1 ELSE CHOOSE k \in S : \A m \in S : k <= m

missingFiles(j) ==
    (IF ~Truthy(j.errors) THEN <<"ilm_explain_only_errors.json">> ELSE <<>>)
        \o (IF ~Truthy(j.policies) THEN <<"ilm_policies.json">> ELSE <<>>)

\* Mutant of zipBundle: errors and policies change places.
zipBundleSwapped(j) ==
    << j.policies, j.errors, j.version,
       IF Truthy(j.shards) THEN j.shards ELSE EmptyArray,
       j.allocation, j.settings, j.nodesStats, j.pipelines >>

\* The arguments of onDataLoaded in processZipFile.
zipBundle(j) ==
    << j.errors, j.policies, j.version,
       IF Truthy(j.shards) THEN j.shards ELSE EmptyArray,
       j.allocation, j.settings, j.nodesStats, j.pipelines >>

\* Mutant of zipCompletion: the advisory needs both files to be missing.
zipCompletionBothMissing(j) ==
    (IF ~Truthy(j.errors) /\ ~Truthy(j.policies)
        THEN <<SetError(AdvisoryMessage(missingFiles(j)))>> ELSE <<>>)
        \o (IF Truthy(j.settings) THEN <<SetItem("settings", j.settings)>> ELSE <<>>)
        \o <<OnDataLoaded(zipBundle(j))>>

\* Mutant of zipCompletion: onDataLoaded is called before settings is stored.
zipCompletionCallsFirst(j) ==
    (IF ~Truthy(j.errors) \/ ~Truthy(j.policies)
        THEN <<SetError(AdvisoryMessage(missingFiles(j)))>> ELSE <<>>)
        \o <<OnDataLoaded(zipBundle(j))>>
        \o (IF Truthy(j.settings) THEN <<SetItem("settings", j.settings)>> ELSE <<>>)

\* What processZipFile does after its loop, in order (the timer it sets aside).
zipCompletion(j) ==
    (IF ~Truthy(j.errors) \/ ~Truthy(j.policies)
        THEN <<SetError(AdvisoryMessage(missingFiles(j)))>> ELSE <<>>)
        \o (IF Truthy(j.settings) THEN <<SetItem("settings", j.settings)>> ELSE <<>>)
        \o <<OnDataLoaded(zipBundle(j))>>

\* Whether the deferred loop reads the entry.
isOptional(normalizedPath) ==
    \/ includes(normalizedPath, "index_templates.json")
    \/ includes(normalizedPath, "alias.json")
    \/ includes(normalizedPath, "aliases.json")

optionalKey(normalizedPath) ==
    IF includes(normalizedPath, "index_templates.json") THEN "index_templates"
    ELSE IF includes(normalizedPath, "alias.json") \/ includes(normalizedPath, "aliases.json")
         THEN "aliases"
    ELSE "none"

nextOptional(entries, i) ==
    LET S == {k \in (i + 1)..Len(entries) :
                ~entries[k].dir /\ isOptional(toLowerCase(entries[k].path))}
    IN  IF S = {} THEN Len(entries) + 1 ELSE CHOOSE k \in S : \A m \in S : k <= m

\* One iteration of the deferred loop on an optional entry: its effects.
optionalEntry(e) ==
    LET normalizedPath == toLowerCase(e.path)
        parsed == IF e.ok THEN JSONparse(e.text) ELSE SyntaxError
        key == optionalKey(normalizedPath)
    IN  IF ~e.ok \/ parsed = SyntaxError \/ key = "none" THEN <<>>
        ELSE <<SetItem(key, parsed)>>

\* -------------------------------------------------- loadDemoData: pure parts
\* The promises of an attempt that is no loadDemoData: none.
NoDemo == <<>>
Resources == {"ilm_explain_only_errors", "ilm_policies", "index_templates", "aliases",
              "shards", "allocation_explain", "settings", "nodes_stats", "pipelines"}
\* What the server may answer for a resource: no JSON, null, or an object.
DemoTexts(r) == {BadText, NullText, ObjText(r)}

\* The arguments of onDataLoaded in loadDemoData.
demoBundle(b) ==
    << b["ilm_explain_only_errors"], b["ilm_policies"], JsUndefined, b["shards"],
       b["allocation_explain"], b["settings"], b["nodes_stats"], b["pipelines"] >>

\* Mutant of demoCompletion: onDataLoaded is called before the keys are stored.
demoCompletionCallsFirst(b) ==
    <<OnDataLoaded(demoBundle(b))>>
        \o <<SetItem("index_templates", b["index_templates"]), SetItem("aliases", b["aliases"])>>
        \o (IF Truthy(b["settings"]) THEN <<SetItem("settings", b["settings"])>> ELSE <<>>)

\* What loadDemoData does after its second Promise.all, in order.
demoCompletion(b) ==
    <<SetItem("index_templates", b["index_templates"]), SetItem("aliases", b["aliases"])>>
        \o (IF Truthy(b["settings"]) THEN <<SetItem("settings", b["settings"])>> ELSE <<>>)
        \o <<OnDataLoaded(demoBundle(b))>>

\* ---------------------------------------------------------------- NodesView
NodeIds == 1..MaxNodes
NodeNames == {"es-a", "es-b"}
NoMaster == [present |-> FALSE, id |-> 0, node |-> ""]
\* A master record; id 0 and name "es-x" are those of no node of the response.
MasterNodes ==
    {NoMaster} \cup
        {[present |-> TRUE, id |-> i, node |-> n] :
            i \in {0} \cup NodeIds, n \in NodeNames \cup {"es-x"}}
NodesResponses == UNION {[S -> NodeNames] : S \in SUBSET NodeIds}

\* Mutant of isMasterNode: the id and the name must both match.
isMasterNodeBoth(nodeId, nodeName) ==
    IF ~masterNode.present THEN FALSE
    ELSE masterNode.id = nodeId /\ masterNode.node = nodeName

isMasterNode(nodeId, nodeName) ==
    IF ~masterNode.present THEN FALSE
    ELSE masterNode.id = nodeId \/ masterNode.node = nodeName

\* ------------------------------------------------------------------- Init
InitUpload ==
    /\ isLoading = FALSE
    /\ error = NoError
    /\ storage = [k \in StorageKeys |-> NoItem]
    /\ started = 0
    /\ pc = <<>>
    /\ file = <<>>
    /\ idx = <<>>
    /\ json = <<>>
    /\ auxpc = <<>>
    /\ auxidx = <<>>
    /\ resp = <<>>
    /\ body = <<>>
    /\ log = <<>>

Init ==
    /\ InitUpload
    /\ nodesData = <<>>
    /\ masterNode = NoMaster
    /\ rendered = FALSE
    /\ marked = {}

InitNodes ==
    /\ InitUpload
    /\ nodesData \in NodesResponses
    /\ masterNode \in MasterNodes
    /\ rendered = FALSE
    /\ marked = {}

\* ------------------------------------------------ processZipFile: the steps
\* Lines 23-29: up to `await zip.loadAsync(file)`.
processZipFile(a, f) ==
    /\ a = started + 1
    /\ a \in Attempts
    /\ started' = a
    /\ isLoading' = TRUE
    /\ error' = NoError
    /\ pc' = Append(pc, "loadAsync")
    /\ file' = Append(file, f)
    /\ idx' = Append(idx, 0)
    /\ json' = Append(json, NoJson)
    /\ auxpc' = Append(auxpc, "none")
    /\ auxidx' = Append(auxidx, 0)
    /\ resp' = Append(resp, NoDemo)
    /\ body' = Append(body, NoDemo)
    /\ log' = Append(log, <<SetError(NoError)>>)
    /\ UNCHANGED storage

\* The primary loop from entry i on, with locals j: it suspends at the next
\* `await zipEntry.async('string')`, or runs lines 82-141 when no entry is left.
primaryLoop(a, i, j) ==
    IF i <= Len(file[a].entries)
    THEN /\ pc' = [pc EXCEPT ![a] = "entry"]
         /\ idx' = [idx EXCEPT ![a] = i]
         /\ json' = [json EXCEPT ![a] = j]
         /\ UNCHANGED <<isLoading, error, storage, auxpc, log>>
    ELSE /\ pc' = [pc EXCEPT ![a] = "done"]
         /\ idx' = [idx EXCEPT ![a] = i]
         /\ json' = [json EXCEPT ![a] = j]
         /\ error' = errorAfter(error, zipCompletion(j))
         /\ storage' = storageAfter(storage, zipCompletion(j))
         /\ log' = [log EXCEPT ![a] = @ \o zipCompletion(j)]
         /\ auxpc' = [auxpc EXCEPT ![a] = "scheduled"]
         /\ isLoading' = FALSE

\* zip.loadAsync resolves: lines 31-49, up to the first entry's await.
LoadAsyncResolved(a) ==
    /\ pc[a] = "loadAsync"
    /\ file[a].valid
    /\ primaryLoop(a, nextFile(file[a].entries, 0), NoJson)
    /\ UNCHANGED <<started, file, auxidx, resp, body>>

\* Mutant of LoadAsyncRejected: the failure is tolerated like a missing entry,
\* and the empty bundle is delivered.
LoadAsyncRejectedDelivers(a) ==
    /\ pc[a] = "loadAsync"
    /\ ~file[a].valid
    /\ \E m \in ZipErrorMessages :
        /\ error' = m
        /\ log' = [log EXCEPT ![a] = @ \o <<SetError(m), OnDataLoaded(zipBundle(NoJson))>>]
    /\ isLoading' = FALSE
    /\ pc' = [pc EXCEPT ![a] = "done"]
    /\ UNCHANGED <<storage, started, file, idx, json, auxpc, auxidx, resp, body>>

\* zip.loadAsync rejects: the outer catch and finally, lines 136-141.
LoadAsyncRejected(a) ==
    /\ pc[a] = "loadAsync"
    /\ ~file[a].valid
    /\ \E m \in ZipErrorMessages :
        /\ error' = m
        /\ log' = [log EXCEPT ![a] = @ \o <<SetError(m)>>]
    /\ isLoading' = FALSE
    /\ pc' = [pc EXCEPT ![a] = "done"]
    /\ UNCHANGED <<storage, started, file, idx, json, auxpc, auxidx, resp, body>>

\* Mutant of EntrySettled: without the inner try / catch a failing entry ends in
\* the outer catch.
EntrySettledNoCatch(a) ==
    /\ pc[a] = "entry"
    /\ LET e == file[a].entries[idx[a]]
       IN  IF ~e.ok \/ JSONparse(e.text) = SyntaxError
           THEN /\ error' = <<"Unexpected token">>
                /\ log' = [log EXCEPT ![a] = @ \o <<SetError(<<"Unexpected token">>)>>]
                /\ isLoading' = FALSE
                /\ pc' = [pc EXCEPT ![a] = "done"]
                /\ UNCHANGED <<storage, idx, json, auxpc>>
           ELSE primaryLoop(a, nextFile(file[a].entries, idx[a]), processEntry(json[a], e))
    /\ UNCHANGED <<started, file, auxidx, resp, body>>

\* zipEntry.async('string') settles: lines 50-79 for this entry, then the loop.
EntrySettled(a) ==
    /\ pc[a] = "entry"
    /\ primaryLoop(a, nextFile(file[a].entries, idx[a]),
                   processEntry(json[a], file[a].entries[idx[a]]))
    /\ UNCHANGED <<started, file, auxidx, resp, body>>

\* The deferred loop from entry i on: it suspends at the next optional entry.
deferredLoop(a, i) ==
    /\ auxidx' = [auxidx EXCEPT ![a] = i]
    /\ auxpc' = [auxpc EXCEPT ![a] = IF i <= Len(file[a].entries) THEN "entry" ELSE "done"]

\* The timer of line 96 fires: lines 97-105, up to the first optional entry's await.
TimerFired(a) ==
    /\ auxpc[a] = "scheduled"
    /\ deferredLoop(a, nextOptional(file[a].entries, 0))
    /\ UNCHANGED <<isLoading, error, storage, started, pc, file, idx, json, resp, body, log>>

\* An optional entry's zipEntry.async('string') settles: lines 106-115, then the loop.
OptionalEntrySettled(a) ==
    /\ auxpc[a] = "entry"
    /\ LET evs == optionalEntry(file[a].entries[auxidx[a]])
       IN  /\ storage' = storageAfter(storage, evs)
           /\ log' = [log EXCEPT ![a] = @ \o evs]
    /\ deferredLoop(a, nextOptional(file[a].entries, auxidx[a]))
    /\ UNCHANGED <<isLoading, error, started, pc, file, idx, json, resp, body>>

\* -------------------------------------------------- loadDemoData: the steps
\* Mutant of demoFailed: what was loaded is delivered all the same.
demoFailedDelivers(a) ==
    /\ error' = DemoFailedMessage
    /\ log' = [log EXCEPT ![a] = @ \o <<SetError(DemoFailedMessage), OnDataLoaded(demoBundle(body[a]))>>]
    /\ isLoading' = FALSE
    /\ pc' = [pc EXCEPT ![a] = "done"]
    /\ UNCHANGED <<storage, started, file, idx, json, auxpc, auxidx>>

\* The catch and finally of loadDemoData, lines 210-214.
demoFailed(a) ==
    /\ error' = DemoFailedMessage
    /\ log' = [log EXCEPT ![a] = @ \o <<SetError(DemoFailedMessage)>>]
    /\ isLoading' = FALSE
    /\ pc' = [pc EXCEPT ![a] = "done"]
    /\ UNCHANGED <<storage, started, file, idx, json, auxpc, auxidx>>

\* The button (disabled while isLoading): lines 161-177, the nine fetches issued.
loadDemoData(a) ==
    /\ ~isLoading
    /\ a = started + 1
    /\ a \in Attempts
    /\ started' = a
    /\ isLoading' = TRUE
    /\ error' = NoError
    /\ pc' = Append(pc, "fetch")
    /\ file' = Append(file, NotAZip)
    /\ idx' = Append(idx, 0)
    /\ json' = Append(json, NoJson)
    /\ auxpc' = Append(auxpc, "none")
    /\ auxidx' = Append(auxidx, 0)
    /\ resp' = Append(resp, [r \in Resources |-> "pending"])
    /\ body' = Append(body, [r \in Resources |-> Pending])
    /\ log' = Append(log, <<SetError(NoError)>>)
    /\ UNCHANGED storage

\* One fetch resolves; with the last one the first Promise.all does, and the nine
\* res.json() are issued (lines 179-189).
FetchResolved(a, r) ==
    /\ pc[a] = "fetch"
    /\ resp[a][r] = "pending"
    /\ resp' = [resp EXCEPT ![a][r] = "resolved"]
    /\ pc' = [pc EXCEPT ![a] =
                IF \A q \in Resources \ {r} : resp[a][q] = "resolved" THEN "json" ELSE "fetch"]
    /\ UNCHANGED <<isLoading, error, storage, started, file, idx, json, auxpc, auxidx,
                   body, log>>

\* One fetch rejects: the first Promise.all rejects.
FetchRejected(a, r) ==
    /\ pc[a] = "fetch"
    /\ resp[a][r] = "pending"
    /\ resp' = [resp EXCEPT ![a][r] = "rejected"]
    /\ demoFailed(a)
    /\ UNCHANGED body

\* One res.json() resolves; with the last one the second Promise.all does, and
\* lines 191-209 and the finally run.
JsonResolved(a, r, text) ==
    /\ pc[a] = "json"
    /\ body[a][r] = Pending
    /\ JSONparse(text) # SyntaxError
    /\ LET b == [body[a] EXCEPT ![r] = JSONparse(text)]
       IN  /\ body' = [body EXCEPT ![a] = b]
           /\ IF \A q \in Resources : b[q] # Pending
              THEN /\ storage' = storageAfter(storage, demoCompletion(b))
                   /\ log' = [log EXCEPT ![a] = @ \o demoCompletion(b)]
                   /\ isLoading' = FALSE
                   /\ pc' = [pc EXCEPT ![a] = "done"]
              ELSE UNCHANGED <<storage, log, isLoading, pc>>
    /\ UNCHANGED <<error, started, file, idx, json, auxpc, auxidx, resp>>

\* One res.json() rejects (the body is no JSON): the second Promise.all rejects.
JsonRejected(a, r, text) ==
    /\ pc[a] = "json"
    /\ body[a][r] = Pending
    /\ JSONparse(text) = SyntaxError
    /\ body' = [body EXCEPT ![a][r] = SyntaxError]
    /\ demoFailed(a)
    /\ UNCHANGED resp

\* ------------------------------------------------------------ the UI events
\* handleDrop, lines 144-152; `present` is whether e.dataTransfer.files[0] exists.
handleDrop(present, type, f) ==
    IF present /\ type = "application/zip"
    THEN processZipFile(started + 1, f)
    ELSE /\ error' = PleaseUploadMessage
         /\ UNCHANGED <<isLoading, storage, started, pc, file, idx, json, auxpc, auxidx,
                        resp, body, log>>

\* handleFileChange, lines 154-159; the input is rendered only while ~isLoading.
handleFileChange(f) ==
    /\ ~isLoading
    /\ processZipFile(started + 1, f)

\* NodesView renders one card per node, lines 79-87.
NodesViewRender ==
    /\ ~rendered
    /\ rendered' = TRUE
    /\ marked' = {nodeId \in DOMAIN nodesData : isMasterNode(nodeId, nodesData[nodeId])}
    /\ UNCHANGED <<nodesData, masterNode>>

\* --------------------------------------------------------- specifications
\* One ingestion at a time (the use the component expects), any archive.
Drop ==
    /\ started < 1
    /\ \E present \in BOOLEAN, type \in FileTypes :
            \E f \in IF present /\ type = "application/zip" THEN Files ELSE {NotAZip} :
                handleDrop(present, type, f)
    /\ UNCHANGED viewVars
Pick ==
    /\ started < 1
    /\ \E f \in Files : handleFileChange(f)
    /\ UNCHANGED viewVars
Demo == loadDemoData(started + 1) /\ started < 1 /\ UNCHANGED viewVars
LoadResolve == \E a \in DOMAIN pc : LoadAsyncResolved(a) /\ UNCHANGED viewVars
LoadReject == \E a \in DOMAIN pc : LoadAsyncRejected(a) /\ UNCHANGED viewVars
EntryStep == \E a \in DOMAIN pc : EntrySettled(a) /\ UNCHANGED viewVars
Timer == \E a \in DOMAIN pc : TimerFired(a) /\ UNCHANGED viewVars
OptionalStep == \E a \in DOMAIN pc : OptionalEntrySettled(a) /\ UNCHANGED viewVars
FetchResolve ==
    \E a \in DOMAIN pc, r \in Resources : FetchResolved(a, r) /\ UNCHANGED viewVars
FetchReject ==
    \E a \in DOMAIN pc, r \in Resources : FetchRejected(a, r) /\ UNCHANGED viewVars
JsonResolve ==
    \E a \in DOMAIN pc, r \in Resources :
        \E text \in DemoTexts(r) : JsonResolved(a, r, text) /\ UNCHANGED viewVars
JsonReject ==
    \E a \in DOMAIN pc, r \in Resources :
        \E text \in DemoTexts(r) : JsonRejected(a, r, text) /\ UNCHANGED viewVars

Next ==
    \/ Drop
    \/ Pick
    \/ Demo
    \/ LoadResolve
    \/ LoadReject
    \/ EntryStep
    \/ Timer
    \/ OptionalStep
    \/ FetchResolve
    \/ FetchReject
    \/ JsonResolve
    \/ JsonReject
Spec == Init /\ [][Next]_vars

\* Overlapping ingestions: drops are accepted while an attempt is in flight.
DropConc ==
    /\ \E present \in BOOLEAN, type \in FileTypes :
            \E f \in IF present /\ type = "application/zip" THEN ConcFiles ELSE {NotAZip} :
                handleDrop(present, type, f)
    /\ UNCHANGED viewVars
PickConc == (\E f \in ConcFiles : handleFileChange(f)) /\ UNCHANGED viewVars
NextConc ==
    \/ DropConc
    \/ PickConc
    \/ LoadResolve
    \/ LoadReject
    \/ EntryStep
    \/ Timer
    \/ OptionalStep
SpecConc == Init /\ [][NextConc]_vars

\* NodesView over every node set and master record.
NextNodes == NodesViewRender /\ UNCHANGED uploadVars
SpecNodes == InitNodes /\ [][NextNodes]_vars

\* ===================================================================== claims
\* ------------------------------------------------ vocabulary of the claims
\* The table of recognized filenames, in its order.
RuleTable ==
    << [field |-> "errors", name |-> "ilm_explain_only_errors.json"],
       [field |-> "policies", name |-> "ilm_policies.json"],
       [field |-> "version", name |-> "version.json"],
       [field |-> "shards", name |-> "shards.json"],
       [field |-> "allocation", name |-> "allocation_explain.json"],
       [field |-> "settings", name |-> "settings.json"],
       [field |-> "nodesStats", name |-> "nodes_stats.json"],
       [field |-> "pipelines", name |-> "pipelines.json"] >>
FieldOrder == [i \in DOMAIN RuleTable |-> RuleTable[i].field]
Least(S) == CHOOSE k \in S : \A m \in S : k <= m
Greatest(S) == CHOOSE k \in S : \A m \in S : m <= k

\* The field of the first rule of the table that the path matches.
FirstMatchOf ==
    [path \in Paths \cup DirPaths |->
        LET S == {i \in DOMAIN RuleTable : includes(toLowerCase(path), RuleTable[i].name)}
        IN  IF S = {} THEN "none" ELSE RuleTable[Least(S)].field]
FirstMatch(path) == FirstMatchOf[path]

Corrupted(e) == ~e.ok \/ JSONparse(e.text) = SyntaxError
\* The entries of the archive matched to the field.
MatchedIdx(entries, f) ==
    {k \in DOMAIN entries : ~entries[k].dir /\ FirstMatch(entries[k].path) = f}
Absent(f) == IF f = "shards" THEN EmptyArray ELSE JsNull

\* Per field, the value of the last entry of the archive that matched it and parsed.
LastParsed(entries, f) ==
    LET S == {k \in DOMAIN entries :
                ~entries[k].dir /\ FirstMatch(entries[k].path) = f /\ ~Corrupted(entries[k])}
    IN  IF S = {} THEN JsNull ELSE JSONparse(entries[Greatest(S)].text)
ExpectedBundle(entries) ==
    [i \in DOMAIN FieldOrder |->
        LET v == LastParsed(entries, FieldOrder[i])
        IN  IF FieldOrder[i] = "shards" /\ ~Truthy(v) THEN EmptyArray ELSE v]
Without(entries, k) == SubSeq(entries, 1, k - 1) \o SubSeq(entries, k + 1, Len(entries))

IsDemoAttempt(a) == DOMAIN resp[a] = Resources
IsZipAttempt(a) == ~IsDemoAttempt(a)
\* The attempt opened its archive and ran to the end of processZipFile.
Opened(a) == IsZipAttempt(a) /\ file[a].valid /\ pc[a] = "done"
InFlight(a) == pc[a] # "done"

IsCall(e) == e.op = "onDataLoaded"
Calls(a) == SelectSeq(log[a], IsCall)
CallIdx(a) == {i \in DOMAIN log[a] : log[a][i].op = "onDataLoaded"}
WriteIdx(a, keys) == {i \in DOMAIN log[a] : log[a][i].op = "setItem" /\ log[a][i].key \in keys}
IsAdvisory(msg) == startsWith(msg, "Note:")
Fatal(msg) == msg # NoError /\ ~IsAdvisory(msg)
FailedFatally(a) == \E i \in DOMAIN log[a] : log[a][i].op = "setError" /\ Fatal(log[a][i].arg)
EmptyStorage == [k \in StorageKeys |-> NoItem]

\* ------------------------------------------------------------------------ C1
\* C1 (as amended): an archive that opens never makes processZipFile fail, and
\* onDataLoaded is called once with every field holding the parsed value of the
\* last entry that matched the field's rule first and decoded and parsed; a field
\* with no such entry is null, and shards is the empty sequence when no such
\* entry exists or its value is falsy.
C1_BundleOfParsedEntries ==
    \A a \in DOMAIN pc :
        Opened(a) =>
            /\ ~FailedFatally(a)
            /\ ~Fatal(error)
            /\ Calls(a) = <<OnDataLoaded(ExpectedBundle(file[a].entries))>>

\* C1's case: two entries, one matching two rules (the first wins), one matched
\* case-insensitively.
C1_Witness ==
    \E a \in DOMAIN pc :
        /\ Opened(a)
        /\ Len(file[a].entries) = 2
        /\ \E k \in 1..2 : file[a].entries[k].path = <<"version.json", "/", "shards.json">>
        /\ Len(Calls(a)) = 1
        /\ Calls(a)[1].arg[3] = Obj("1")
        /\ Calls(a)[1].arg[2] = Obj("2")
        /\ Calls(a)[1].arg[4] = EmptyArray

\* C1 as stated: every field whose filename matched holds a parsed value, every
\* other field is null (shards: the empty sequence).
C1_Original ==
    \A a \in DOMAIN pc :
        (Opened(a) /\ \A k \in DOMAIN file[a].entries :
                        ~file[a].entries[k].dir => FirstMatch(file[a].entries[k].path) # "none")
        =>  /\ ~FailedFatally(a)
            /\ Len(Calls(a)) = 1
            /\ \A i \in DOMAIN FieldOrder :
                LET M == MatchedIdx(file[a].entries, FieldOrder[i])
                IN  IF M = {} THEN Calls(a)[1].arg[i] = Absent(FieldOrder[i])
                    ELSE \E k \in M :
                            /\ ~Corrupted(file[a].entries[k])
                            /\ Calls(a)[1].arg[i] = JSONparse(file[a].entries[k].text)

C3_CorruptedEntryIsSkipped ==
    \A a \in DOMAIN pc :
        Opened(a) =>
            \A k \in DOMAIN file[a].entries :
                LET e == file[a].entries[k]
                    f == FirstMatch(e.path)
                IN  (~e.dir /\ f # "none" /\ Corrupted(e)) =>
                        /\ ~FailedFatally(a)
                        /\ Calls(a) = <<OnDataLoaded(
                               zipBundle(primaryPass(Without(file[a].entries, k), 1, NoJson)))>>
                        /\ \A i \in DOMAIN FieldOrder :
                               (FieldOrder[i] = f /\ MatchedIdx(file[a].entries, f) = {k})
                                   => Calls(a)[1].arg[i] = Absent(f)

\* C3's case: a corrupted entry first, a sound entry after it.
C3_Witness ==
    \E a \in DOMAIN pc :
        /\ Opened(a)
        /\ Len(file[a].entries) = 2
        /\ ~file[a].entries[1].dir
        /\ FirstMatch(file[a].entries[1].path) = "version"
        /\ Corrupted(file[a].entries[1])
        /\ FirstMatch(file[a].entries[2].path) = "pipelines"
        /\ Len(Calls(a)) = 1
        /\ Calls(a)[1].arg[3] = JsNull
        /\ Calls(a)[1].arg[8] = Obj("2")

\* ------------------------------------------------------------------------ C4
\* C4: when zip.loadAsync fails the attempt ends with a fatal message, no call
\* of onDataLoaded and no write; a dropped file that is no application/zip is
\* refused with a fatal message before anything is started, delivered or written.
C4_UnreadableInputIsFatal ==
    /\ \A a \in DOMAIN pc :
        (IsZipAttempt(a) /\ ~file[a].valid /\ pc[a] = "done") =>
            /\ Fatal(error)
            /\ Calls(a) = <<>>
            /\ WriteIdx(a, StorageKeys) = {}
            /\ auxpc[a] = "none"
            /\ storage = EmptyStorage
            /\ ~isLoading
    /\ error = PleaseUploadMessage =>
            /\ Fatal(error)
            /\ started = 0
            /\ pc = <<>>
            /\ storage = EmptyStorage

\* C4's case: an attempt whose file did not open has ended.
C4_Witness ==
    \E a \in DOMAIN pc : IsZipAttempt(a) /\ ~file[a].valid /\ pc[a] = "done" /\ Fatal(error)

\* ------------------------------------------------------------------------ C5
\* C5: when one of the nine resources fails to fetch or to parse, loadDemoData
\* ends with 'Failed to load demo data', no call of onDataLoaded and no key
\* written, however many of the others succeeded.
DemoFailure(a) ==
    \E r \in Resources : resp[a][r] = "rejected" \/ body[a][r] = SyntaxError
C5_DemoFailsAsAWhole ==
    \A a \in DOMAIN pc :
        (IsDemoAttempt(a) /\ DemoFailure(a)) =>
            /\ pc[a] = "done"
            /\ error = DemoFailedMessage
            /\ Calls(a) = <<>>
            /\ WriteIdx(a, StorageKeys) = {}
            /\ storage = EmptyStorage
            /\ ~isLoading

\* C5's case: eight resources fetched and parsed, the ninth is no JSON.
C5_Witness ==
    \E a \in DOMAIN pc, r \in Resources :
        /\ IsDemoAttempt(a)
        /\ body[a][r] = SyntaxError
        /\ \A q \in Resources \ {r} : Truthy(body[a][q])

\* ------------------------------------------------------------------------ C6
DemoSucceeded(a) ==
    IsDemoAttempt(a) /\ \A r \in Resources : body[a][r] \notin {Pending, SyntaxError}
DemoArgs(a) ==
    << body[a]["ilm_explain_only_errors"], body[a]["ilm_policies"], JsUndefined,
       body[a]["shards"], body[a]["allocation_explain"], body[a]["settings"],
       body[a]["nodes_stats"], body[a]["pipelines"] >>
\* C6 (as amended): when all nine resources fetch and parse, onDataLoaded is
\* called once with the fetched values and version undefined; index_templates
\* and aliases are written, settings is written when its value is truthy and
\* only then, and every write comes before the call.
C6_DemoDeliversAfterWrites ==
    \A a \in DOMAIN pc :
        DemoSucceeded(a) =>
            /\ pc[a] = "done"
            /\ Calls(a) = <<OnDataLoaded(DemoArgs(a))>>
            /\ {log[a][i].key : i \in WriteIdx(a, StorageKeys)} =
                    {"index_templates", "aliases"} \cup
                        (IF Truthy(body[a]["settings"]) THEN {"settings"} ELSE {})
            /\ \A k \in StorageKeys : Cardinality(WriteIdx(a, {k})) <= 1
            /\ \A i \in WriteIdx(a, StorageKeys) : \A c \in CallIdx(a) : i < c
            /\ \A k \in StorageKeys :
                    storage[k] = IF k = "settings" /\ ~Truthy(body[a][k]) THEN NoItem
                                 ELSE JSONstringify(body[a][k])
            /\ error = NoError

\* C6's case: nine objects fetched, three keys written.
C6_Witness ==
    \E a \in DOMAIN pc :
        /\ DemoSucceeded(a)
        /\ \A r \in Resources : body[a][r] = Obj(r)
        /\ \A k \in StorageKeys : storage[k] = ObjText(k)

\* C6 as stated: exactly three keys are written whenever all nine succeed.
C6_Original ==
    \A a \in DOMAIN pc :
        DemoSucceeded(a) =>
            /\ Calls(a) = <<OnDataLoaded(DemoArgs(a))>>
            /\ {log[a][i].key : i \in WriteIdx(a, StorageKeys)} = StorageKeys
            /\ \A i \in WriteIdx(a, StorageKeys) : \A c \in CallIdx(a) : i < c

\* ------------------------------------------------------------------------ C7
ZipArgs(a) ==
    << json[a].errors, json[a].policies, json[a].version,
       IF Truthy(json[a].shards) THEN json[a].shards ELSE EmptyArray,
       json[a].allocation, json[a].settings, json[a].nodesStats, json[a].pipelines >>
\* C7 (as amended): onDataLoaded is called at most once per attempt: once when
\* the attempt ends without a fatal failure, never when it ends with one; its
\* arguments are errors, policies, version, shards, allocation, settings, node
\* stats, pipelines, in this order.
C7_CalledOnceUnlessFatal ==
    \A a \in DOMAIN pc :
        /\ Len(Calls(a)) <= 1
        /\ InFlight(a) => Calls(a) = <<>>
        /\ pc[a] = "done" => (Len(Calls(a)) = 1 <=> ~FailedFatally(a))
        /\ Len(Calls(a)) = 1 =>
                Calls(a)[1].arg = IF IsDemoAttempt(a) THEN DemoArgs(a) ELSE ZipArgs(a)

\* C7's case: an archive with an errors and a policies entry has been delivered.
C7_Witness ==
    \E a \in DOMAIN pc :
        /\ Opened(a)
        /\ LastParsed(file[a].entries, "errors") = Obj("1")
        /\ LastParsed(file[a].entries, "policies") = Obj("2")
        /\ Len(Calls(a)) = 1
        /\ Calls(a)[1].arg[1] = Obj("1")
        /\ Calls(a)[1].arg[2] = Obj("2")

\* C7 as stated: every attempt that has ended has called onDataLoaded once.
C7_Original ==
    \A a \in DOMAIN pc : pc[a] = "done" => Len(Calls(a)) = 1

\* ------------------------------------------------------------------------ C8
\* C8: the cards marked as master are those of the nodes whose id is the master
\* record's id or whose name is the master record's node name; none is marked
\* when there is no master record.
C8_MasterIsIdOrName ==
    rendered =>
        /\ marked = {n \in DOMAIN nodesData :
                        masterNode.present /\
                            (masterNode.id = n \/ masterNode.node = nodesData[n])}
        /\ ~masterNode.present => marked = {}

\* C8's case: one node is the master by its name alone, another is not the master.
C8_Witness ==
    /\ rendered
    /\ masterNode.present
    /\ \E n \in marked : masterNode.id # n /\ masterNode.node = nodesData[n]
    /\ \E n \in DOMAIN nodesData : n \notin marked

\* ------------------------------------------------------------------------ C9
\* C9: in one processZipFile attempt the settings key is written before
\* onDataLoaded is called and index_templates and aliases only after it; the
\* deferred pass starts after the bundle was delivered and changes neither the
\* delivered bundle nor the error state, also when one of its entries fails.
C9_DeferredPassAfterDelivery ==
    \A a \in DOMAIN pc :
        IsZipAttempt(a) =>
            /\ \A i \in WriteIdx(a, {"settings"}) : \E c \in CallIdx(a) : i < c
            /\ \A i \in WriteIdx(a, {"index_templates", "aliases"}) :
                    \E c \in CallIdx(a) : c < i
            /\ auxpc[a] # "none" =>
                    /\ pc[a] = "done"
                    /\ Calls(a) = <<OnDataLoaded(ZipArgs(a))>>
                    /\ \A i \in DOMAIN log[a] :
                            log[a][i].op = "setError" => \E c \in CallIdx(a) : i < c
                    /\ error = errorAfter(NoError, log[a])
                    /\ ~isLoading

\* C9's case: settings written, the bundle delivered, then aliases written.
C9_Witness ==
    \E a \in DOMAIN pc :
        /\ IsZipAttempt(a)
        /\ auxpc[a] = "done"
        /\ WriteIdx(a, {"settings"}) # {}
        /\ WriteIdx(a, {"index_templates", "aliases"}) # {}

\* ----------------------------------------------------------------------- C10
\* C10: isLoading is true whenever an ingestion attempt is in flight.
C10_LoadingWhileInFlight ==
    (\E a \in DOMAIN pc : InFlight(a)) => isLoading

====
